---- MODULE Spec2Model ----
(***************************************************************************)
(* Model of onewire-prom-exporter (src/main.go).                           *)
(*                                                                         *)
(* Three threads of control share the package-level variables:             *)
(*   - main (lines 80-93): installs the handlers, launches the poll        *)
(*     goroutine, then serves HTTP;                                        *)
(*   - observeOnewireTemperature (lines 111-143): discovers the devices,   *)
(*     then polls them forever;                                            *)
(*   - jsonPathHandler (lines 106-109): marshals the sensors slice.        *)
(*                                                                         *)
(* Strings the code inspects (directory entry names, payloads) are         *)
(* sequences of one-character strings, so that strings.Contains and the    *)
(* regular expression are computed and not assumed.  Temperatures are      *)
(* integers in thousandths of a degree Celsius (the code's float64 value   *)
(* times 1000); Fahrenheit values are integers in hundredths of a degree.  *)
(* The sign of a zero (-0.0) is not represented.                           *)
(***************************************************************************)
EXTENDS Integers, Sequences, FiniteSets, TLC

(***************************************************************************)
(* Bounds of the model.                                                    *)
(***************************************************************************)
\* largest number of entries of the device directory
MaxDirEntries == 3

\* the conversion to Fahrenheit is run on the readings -MaxMilli..MaxMilli
\* (thousandths of a degree Celsius)
MaxMilli == 2000

\* pass numbers (a ghost label of each pass) cycle through 1..NumPassTags
NumPassTags == 3

(***************************************************************************)
(* Program constants.                                                      *)
(***************************************************************************)
\* for retries := 0; retries < 5; retries++
MaxRetries == 5

\* the substring of strings.Contains(device.Name(), "w1_bus_master1")
BusMaster == <<"w","1","_","b","u","s","_","m","a","s","t","e","r","1">>

(***************************************************************************)
(* Inputs: directory entry names, in the byte order ioutil.ReadDir sorts   *)
(* its result by, and payloads of w1_slave files.                          *)
(***************************************************************************)
NamePool ==
    << <<"2","8","-","1">>,
       <<"2","8","-","2">>,
       <<"w","1","_","b","u","s","_","m","a","s","t","e","r","1">>,
       <<"w","1","_","b","u","s","_","m","a","s","t","e","r","2">>,
       <<"x","w","1","_","b","u","s","_","m","a","s","t","e","r","1","0">> >>

\* "YES\nt=21500"
PayloadWarm == <<"Y","E","S","\n","t","=","2","1","5","0","0">>

\* "t=9 YES t=-500 "
PayloadCold == <<"t","=","9"," ","Y","E","S"," ","t","=","-","5","0","0"," ">>

\* "NO\nt=85000": no validity marker
PayloadNo == <<"N","O","\n","t","=","8","5","0","0","0">>

\* "t=7 YES t=-": no digits after the marker
PayloadCut == <<"t","=","7"," ","Y","E","S"," ","t","=","-">>

PayloadPool == {PayloadWarm, PayloadCold, PayloadNo, PayloadCut}

\* the payloads of files that have one valid reading
SteadyPayloads == {PayloadWarm, PayloadNo, PayloadCut}

(***************************************************************************)
(* strings.Contains                                                        *)
(***************************************************************************)
HasPrefixAt(s, sub, k) ==
    /\ k + Len(sub) - 1 <= Len(s)
    /\ \A i \in 1..Len(sub) : s[k + i - 1] = sub[i]

Contains(s, sub) == \E k \in 1..(Len(s) + 1) : HasPrefixAt(s, sub, k)

(***************************************************************************)
(* regexp (?s).*YES.*t=(-?[0-9]+) and strconv.ParseFloat                   *)
(***************************************************************************)
Digits == <<"0","1","2","3","4","5","6","7","8","9">>

IsDigit(c) == \E d \in 1..10 : Digits[d] = c

DigitVal(c) == (CHOOSE d \in 1..10 : Digits[d] = c) - 1

\* t= followed by -?[0-9]+ starts at position j
FieldAt(s, j) ==
    /\ HasPrefixAt(s, <<"t","=">>, j)
    /\ \/ (j + 2 <= Len(s) /\ IsDigit(s[j + 2]))
       \/ (j + 3 <= Len(s) /\ s[j + 2] = "-" /\ IsDigit(s[j + 3]))

\* the positions j at which the regexp can match t=(-?[0-9]+): after a YES
FieldPositions(s) ==
    { j \in 1..Len(s) :
        /\ FieldAt(s, j)
        /\ \E i \in 1..Len(s) : HasPrefixAt(s, <<"Y","E","S">>, i) /\ i + 3 <= j }

Matches(s) == FieldPositions(s) # {}

\* both .* are greedy: the field matched is the last one
FieldStart(s) == CHOOSE j \in FieldPositions(s) : \A k \in FieldPositions(s) : k <= j

\* [0-9]+ is greedy: the end of the run of digits starting at position k
RECURSIVE DigitsEnd(_, _)
DigitsEnd(s, k) ==
    IF k + 1 <= Len(s) /\ IsDigit(s[k + 1]) THEN DigitsEnd(s, k + 1) ELSE k

\* the decimal number s[from..to]
RECURSIVE Decimal(_, _, _)
Decimal(s, from, to) ==
    IF to < from THEN 0 ELSE 10 * Decimal(s, from, to - 1) + DigitVal(s[to])

\* match[1] parsed: the captured integer, thousandths of a degree
Captured(s) ==
    LET j == FieldStart(s)
        neg == s[j + 2] = "-"
        from == IF neg THEN j + 3 ELSE j + 2
        n == Decimal(s, from, DigitsEnd(s, from))
    IN IF neg THEN 0 - n ELSE n

(***************************************************************************)
(* float64 arithmetic (IEEE 754 binary64, round to nearest, ties to even), *)
(* as the operators /, * and + of lines 126 and 157 compute it.  The       *)
(* significands have 53 bits, so naturals are kept as sequences of digits  *)
(* in base 4096, least significant first; <<>> is 0.  The values met here  *)
(* are far from the overflow and subnormal ranges.                         *)
(***************************************************************************)
DigitBits == 12

Limb == 4096

\* bits of the significand of a float64
Precision == 53

RECURSIVE Pow2(_)
Pow2(n) == IF n = 0 THEN 1 ELSE 2 * Pow2(n - 1)

RECURSIVE NatOf(_)
NatOf(n) == IF n = 0 THEN <<>> ELSE <<n % Limb>> \o NatOf(n \div Limb)

RECURSIVE IntOf(_)
IntOf(a) == IF a = <<>> THEN 0 ELSE a[1] + Limb * IntOf(Tail(a))

RECURSIVE Trim(_)
Trim(a) ==
    IF a # <<>> /\ a[Len(a)] = 0 THEN Trim(SubSeq(a, 1, Len(a) - 1)) ELSE a

DigitOf(a, i) == IF i <= Len(a) THEN a[i] ELSE 0

RECURSIVE AddFrom(_, _, _, _)
AddFrom(a, b, i, carry) ==
    IF i > Len(a) /\ i > Len(b) THEN NatOf(carry)
    ELSE LET s == DigitOf(a, i) + DigitOf(b, i) + carry
         IN <<s % Limb>> \o AddFrom(a, b, i + 1, s \div Limb)

NatAdd(a, b) == AddFrom(a, b, 1, 0)

\* a - b for a >= b
RECURSIVE SubFrom(_, _, _, _)
SubFrom(a, b, i, borrow) ==
    IF i > Len(a) THEN <<>>
    ELSE LET d == DigitOf(a, i) - DigitOf(b, i) - borrow
         IN <<(d + Limb) % Limb>> \o SubFrom(a, b, i + 1, IF d < 0 THEN 1 ELSE 0)

NatSub(a, b) == Trim(SubFrom(a, b, 1, 0))

RECURSIVE CmpFrom(_, _, _)
CmpFrom(a, b, i) ==
    IF i = 0 THEN 0
    ELSE IF a[i] < b[i] THEN 0 - 1
    ELSE IF a[i] > b[i] THEN 1
    ELSE CmpFrom(a, b, i - 1)

\* -1, 0 or 1 as a is less than, equal to or greater than b
NatCmp(a, b) ==
    IF Len(a) < Len(b) THEN 0 - 1
    ELSE IF Len(a) > Len(b) THEN 1
    ELSE CmpFrom(a, b, Len(a))

\* a * k for a single digit or small factor k
RECURSIVE MulSmallFrom(_, _, _, _)
MulSmallFrom(a, k, i, carry) ==
    IF i > Len(a) THEN NatOf(carry)
    ELSE LET p == a[i] * k + carry
         IN <<p % Limb>> \o MulSmallFrom(a, k, i + 1, p \div Limb)

MulSmall(a, k) == Trim(MulSmallFrom(a, k, 1, 0))

ShiftDigits(a, n) == IF a = <<>> THEN <<>> ELSE [i \in 1..n |-> 0] \o a

RECURSIVE MulFrom(_, _, _)
MulFrom(a, b, i) ==
    IF i > Len(b) THEN <<>>
    ELSE NatAdd(ShiftDigits(MulSmall(a, b[i]), i - 1), MulFrom(a, b, i + 1))

NatMul(a, b) == Trim(MulFrom(a, b, 1))

\* quotient and remainder of a by a small divisor k, from the top digit down
RECURSIVE DivSmallFrom(_, _, _, _)
DivSmallFrom(a, k, i, r) ==
    IF i = 0 THEN [q |-> <<>>, r |-> r]
    ELSE LET cur == r * Limb + a[i]
             rest == DivSmallFrom(a, k, i - 1, cur % k)
         IN [q |-> <<cur \div k>> \o rest.q, r |-> rest.r]

Reverse(s) == [i \in 1..Len(s) |-> s[Len(s) + 1 - i]]

DivSmall(a, k) ==
    LET d == DivSmallFrom(a, k, Len(a), 0)
    IN [q |-> Trim(Reverse(d.q)), r |-> d.r]

\* a * 2^n and the integer part of a / 2^n
ShiftLeft(a, n) == ShiftDigits(MulSmall(a, Pow2(n % DigitBits)), n \div DigitBits)

ShiftRight(a, n) ==
    IF n \div DigitBits >= Len(a) THEN <<>>
    ELSE DivSmall(SubSeq(a, n \div DigitBits + 1, Len(a)), Pow2(n % DigitBits)).q

RECURSIVE SmallBitLen(_)
SmallBitLen(n) == IF n = 0 THEN 0 ELSE 1 + SmallBitLen(n \div 2)

BitLen(a) ==
    IF a = <<>> THEN 0 ELSE DigitBits * (Len(a) - 1) + SmallBitLen(a[Len(a)])

IsOdd(a) == a # <<>> /\ a[1] % 2 = 1

\* A real number is [neg, man, exp]: man * 2^exp, negated when neg.  It is a
\* float64 when man has at most 53 bits.
Real(neg, man, exp) == [neg |-> neg, man |-> man, exp |-> exp]

\* the float64 nearest to man * 2^exp (plus a little more when sticky), ties
\* to the even significand
RoundToFloat(neg, man, exp, sticky) ==
    LET drop == BitLen(man) - Precision
    IN IF drop <= 0 THEN Real(neg, man, exp)
       ELSE LET q == ShiftRight(man, drop)
                rem == NatSub(man, ShiftLeft(q, drop))
                c == NatCmp(rem, ShiftLeft(<<1>>, drop - 1))
                up == c > 0 \/ (c = 0 /\ (sticky \/ IsOdd(q)))
            IN Real(neg, IF up THEN NatAdd(q, <<1>>) ELSE q, exp + drop)

Rounded(x) == RoundToFloat(x.neg, x.man, x.exp, FALSE)

Abs(n) == IF n < 0 THEN 0 - n ELSE n

\* float64(n) for an integer n of at most 53 bits
FloatOfInt(n) == Real(n < 0, NatOf(Abs(n)), 0)

\* float64(n) / float64(d) for integers n and d > 0; also the float64 a
\* decimal constant n/d is converted to
QuotientBits == 64

Quotient(n, d) ==
    LET dv == DivSmall(ShiftLeft(NatOf(Abs(n)), QuotientBits), d)
    IN RoundToFloat(n < 0, dv.q, 0 - QuotientBits, dv.r # 0)

ExactMul(x, y) == Real(x.neg # y.neg, NatMul(x.man, y.man), x.exp + y.exp)

ExactAdd(x, y) ==
    LET e == IF x.exp < y.exp THEN x.exp ELSE y.exp
        a == ShiftLeft(x.man, x.exp - e)
        b == ShiftLeft(y.man, y.exp - e)
    IN IF x.neg = y.neg THEN Real(x.neg, NatAdd(a, b), e)
       ELSE IF NatCmp(a, b) >= 0 THEN Real(x.neg, NatSub(a, b), e)
       ELSE Real(y.neg, NatSub(b, a), e)

FloatMul(x, y) == Rounded(ExactMul(x, y))

FloatAdd(x, y) == Rounded(ExactAdd(x, y))

\* x*y + z rounded once: the fused multiply-add a Go compiler may use for
\* x*y + z where the target has the instruction
FusedMulAdd(x, y, z) == Rounded(ExactAdd(ExactMul(x, y), z))

\* math.Round: the nearest integer, halves away from zero
MathRound(x) ==
    LET n == IF x.exp >= 0 THEN ShiftLeft(x.man, x.exp)
             ELSE LET ip == ShiftRight(x.man, 0 - x.exp)
                      frac == NatSub(x.man, ShiftLeft(ip, 0 - x.exp))
                      half == ShiftLeft(<<1>>, (0 - x.exp) - 1)
                  IN IF NatCmp(frac, half) >= 0 THEN NatAdd(ip, <<1>>) ELSE ip
    IN IF x.neg THEN 0 - IntOf(n) ELSE IntOf(n)

\* line 157: value / 1000, for the captured integer m
Celsius(m) == Quotient(m, 1000)

\* the constant 1.8 of line 126 as a float64
OnePointEight == Quotient(18, 10)

(***************************************************************************)
(* line 126: math.Round((value*1.8+32)*100) / 100 for value = m / 1000,    *)
(* in hundredths of a degree (the division by 100 gives the float64        *)
(* nearest to that many hundredths).  The float64 product is not always    *)
(* the exact (18*m + 320000) / 100: where that is half way between two     *)
(* integers (m = 25 mod 50) the product can fall on either side of the     *)
(* half, and math.Round follows it.                                        *)
(***************************************************************************)
Fahrenheit(m) ==
    MathRound(FloatMul(FloatAdd(FloatMul(Celsius(m), OnePointEight), FloatOfInt(32)),
                       FloatOfInt(100)))

\* the same with value*1.8+32 fused
FahrenheitFused(m) ==
    MathRound(FloatMul(FusedMulAdd(Celsius(m), OnePointEight, FloatOfInt(32)),
                       FloatOfInt(100)))

\* line 126 on the readings of PayloadPool and on the 0 of a failed read
PolledFahrenheit ==
    [m \in {0} \cup {Captured(p) : p \in {q \in PayloadPool : Matches(q)}} |->
        {Fahrenheit(m), FahrenheitFused(m)}]

\* what a build of line 126 can compute for the reading m
FahrenheitOutcomes(m) ==
    IF m \in DOMAIN PolledFahrenheit THEN PolledFahrenheit[m]
    ELSE {Fahrenheit(m), FahrenheitFused(m)}

\* round(a / b) of the integers a and b > 0, halves away from zero
RoundDiv(a, b) ==
    IF a >= 0 THEN (2 * a + b) \div (2 * b)
    ELSE 0 - ((2 * (0 - a) + b) \div (2 * b))

(***************************************************************************)
(* State.                                                                  *)
(***************************************************************************)
VARIABLES
    fileKind,             \* how each device's w1_slave file behaves when read
    enableFahrenheit,     \* flag export.fahrenheit, parsed in init()
    dirErr,               \* whether ioutil.ReadDir(onewireDevicePath) fails
    mainpc,               \* position of main
    pc,                   \* position of the goroutine observeOnewireTemperature
    hpc,                  \* position of one invocation of jsonPathHandler
    devices,              \* local devices of createOnewireDeviceList
    scan,                 \* number of entries of devices its loop has visited
    onewireDeviceList,    \* var onewireDeviceList []string
    sensors,              \* var sensors []sensor: the slice header [ptr, len]
    arr,                  \* the backing array that make([]sensor, n) allocated
    pending,              \* words or fields of a multi-word store not yet written
    onewireTemperatureC,  \* Celsius gauge: device_id -> value (hostname is constant)
    onewireTemperatureF,  \* Fahrenheit gauge: device_id -> value
    index,                \* local index of the poll loop
    retries,              \* local retries of readOnewireDevicePayload
    buffer,               \* local buffer of readOnewireDevicePayload
    value,                \* value returned by readOnewireDevicePayload
    err,                  \* error returned by it: "nil", "io" or "failed"
    hdr,                  \* the slice header json.Marshal(sensors) was passed
    hobs,                 \* the elements the handler has marshalled so far
    pass,                 \* ghost: label of the current pass, 0 before the first
    hist,                 \* ghost: outcome of each read attempt of the current call
    pauses                \* ghost: one-second pauses of the current call

vars ==
    << fileKind, enableFahrenheit, dirErr, mainpc, pc, hpc, devices, scan,
       onewireDeviceList,
       sensors, arr, pending, onewireTemperatureC, onewireTemperatureF, index,
       retries, buffer, value, err, hdr, hobs, pass, hist, pauses >>

envVars == << fileKind, enableFahrenheit, dirErr >>

discoverVars == << devices, scan, onewireDeviceList >>

gaugeVars == << onewireTemperatureC, onewireTemperatureF >>

readVars == << retries, buffer, value, err, hist, pauses >>

handlerVars == << hpc, hdr, hobs >>

(***************************************************************************)
(* Values.                                                                 *)
(***************************************************************************)
FileKinds == {"good", "garbled", "missing", "noisy"}

\* An element of the array is kept as the words it is stored in memory as:
\* a string is a data pointer (here the bytes it points to, none for nil)
\* and a length; SensorValue is one word.
\* sensor{}: the zero value make() fills the array with
ZeroSensor ==
    [SensorID |-> <<>>, SensorIDLen |-> 0, SensorType |-> "", SensorTypeLen |-> 0,
     SensorValue |-> 0, pass |-> 0]

\* len("temperature")
TemperatureLen == 11

\* a string whose length has been stored and whose pointer has not: reading
\* its bytes dereferences nil
TornString(e) ==
    \/ e.SensorID = <<>> /\ e.SensorIDLen > 0
    \/ e.SensorType = "" /\ e.SensorTypeLen > 0

\* the element as json.Marshal encodes it: a string of length 0 is empty
\* whatever its pointer
Marshalled(e) ==
    [SensorID |-> IF e.SensorIDLen = 0 THEN <<>> ELSE e.SensorID,
     SensorType |-> IF e.SensorTypeLen = 0 THEN "" ELSE e.SensorType,
     SensorValue |-> e.SensorValue,
     pass |-> e.pass]

NilSlice == [ptr |-> "nil", len |-> 0]

Range(s) == { s[i] : i \in 1..Len(s) }

\* the directory the poll loop is run on: two sensors and the bus master
PolledDir == SubSeq(NamePool, 1, 3)

\* its names that are devices with a w1_slave file
SensorPool == { n \in Range(PolledDir) : ~Contains(n, BusMaster) }

\* the sorted listings of at most MaxDirEntries names
RECURSIVE Pick(_, _)
Pick(S, k) ==
    IF k > Len(NamePool) THEN <<>>
    ELSE IF k \in S THEN <<NamePool[k]>> \o Pick(S, k + 1) ELSE Pick(S, k + 1)

AllListings ==
    { Pick(S, 1) : S \in { T \in SUBSET (1..Len(NamePool)) :
                             Cardinality(T) <= MaxDirEntries } }

\* the listings of PolledDir
Listings == { l \in AllListings : Range(l) \subseteq Range(PolledDir) }

\* the state when main starts, after init() (lines 50-78) has parsed the flags
InitProgram ==
    /\ enableFahrenheit \in BOOLEAN
    /\ dirErr \in BOOLEAN
    /\ mainpc = "main"
    /\ pc = "notstarted"
    /\ hpc = "idle"
    /\ devices = <<>>
    /\ scan = 0
    /\ onewireDeviceList = <<>>
    /\ sensors = NilSlice
    /\ arr = <<>>
    /\ pending = {}
    /\ onewireTemperatureC = <<>>
    /\ onewireTemperatureF = <<>>
    /\ index = 0
    /\ retries = 0
    /\ buffer = <<>>
    /\ value = 0
    /\ err = "nil"
    /\ hdr = NilSlice
    /\ hobs = <<>>
    /\ pass = 0
    /\ hist = <<>>
    /\ pauses = 0

\* every read of every file may do anything
Init == InitProgram /\ fileKind = [n \in SensorPool |-> "noisy"]

\* each file is readable and valid, permanently invalid, permanently
\* unreadable, or any of these from one read to the next
InitKinds == InitProgram /\ fileKind \in [SensorPool -> FileKinds]

Running == mainpc # "exited"

\* log.Fatal, log.Fatalf: os.Exit(1) ends every goroutine and the memory of
\* the process is gone
Exit ==
    /\ mainpc' = "exited"
    /\ pc' = "exited"
    /\ hpc' = "exited"
    /\ devices' = <<>>
    /\ scan' = 0
    /\ onewireDeviceList' = <<>>
    /\ sensors' = NilSlice
    /\ arr' = <<>>
    /\ pending' = {}
    /\ onewireTemperatureC' = <<>>
    /\ onewireTemperatureF' = <<>>
    /\ index' = 0
    /\ retries' = 0
    /\ buffer' = <<>>
    /\ value' = 0
    /\ err' = "nil"
    /\ hdr' = NilSlice
    /\ hobs' = <<>>
    /\ pass' = 0
    /\ hist' = <<>>
    /\ pauses' = 0
    /\ UNCHANGED envVars

(***************************************************************************)
(* main (lines 80-93).                                                     *)
(***************************************************************************)
\* lines 83-85: http.Handle, http.HandleFunc
InstallHandlers ==
    /\ mainpc = "main"
    /\ mainpc' = "go"
    /\ UNCHANGED << envVars, pc, discoverVars, sensors, arr, pending, gaugeVars,
                    index, readVars, handlerVars, pass >>

\* lines 88-91: go observeOnewireTemperature(), then main is in
\* http.ListenAndServe, which binds the listener first: from then on a
\* request is served whenever one comes
LaunchPoll ==
    /\ mainpc = "go"
    /\ mainpc' = "serving"
    /\ pc' = "ReadDir"
    /\ UNCHANGED << envVars, discoverVars, sensors, arr, pending, gaugeVars,
                    index, readVars, handlerVars, pass >>

\* line 91: http.ListenAndServe returns an error (the address cannot be bound,
\* the listener fails) and log.Fatal ends the process
ListenFail ==
    /\ mainpc = "serving"
    /\ Exit

(***************************************************************************)
(* createOnewireDeviceList (lines 167-184), called once at line 113.  It   *)
(* always returns nil, so the branch of lines 114-116 is never taken.      *)
(***************************************************************************)
\* lines 168-172 with a logging call that returns in place of log.Fatalf:
\* line 171 returns nil and the caller goes on with an empty list
ReadDirFail_continue ==
    /\ Running
    /\ pc = "ReadDir"
    /\ dirErr
    /\ devices' = <<>>
    /\ scan' = 0
    /\ pc' = "scan"
    /\ UNCHANGED << envVars, mainpc, onewireDeviceList, sensors, arr, pending,
                    gaugeVars, index, readVars, handlerVars, pass >>

\* lines 168-172: ioutil.ReadDir fails and log.Fatalf ends the process
ReadDirFail ==
    /\ Running
    /\ pc = "ReadDir"
    /\ dirErr
    /\ Exit

\* line 168: ioutil.ReadDir returns the entries l, sorted by name
ReadDirOK(l) ==
    /\ Running
    /\ pc = "ReadDir"
    /\ ~dirErr
    /\ devices' = l
    /\ scan' = 0
    /\ pc' = "scan"
    /\ UNCHANGED << envVars, mainpc, onewireDeviceList, sensors, arr, pending,
                    gaugeVars, index, readVars, handlerVars, pass >>

\* a variant of IsSensor: the substring is looked for at the start of the name only
IsSensor_prefix(name) == HasPrefixAt(name, BusMaster, 1) # TRUE

\* line 175: strings.Contains(device.Name(), "w1_bus_master1") != true
IsSensor(name) == Contains(name, BusMaster) # TRUE

\* lines 175-178: the list after one directory entry
Discover(list, name) == IF IsSensor(name) THEN Append(list, name) ELSE list

\* lines 174-179: one iteration of the loop over the directory entries
ScanEntry ==
    /\ Running
    /\ pc = "scan"
    /\ scan < Len(devices)
    /\ onewireDeviceList' = Discover(onewireDeviceList, devices[scan + 1])
    /\ scan' = scan + 1
    /\ UNCHANGED << envVars, mainpc, pc, devices, sensors, arr, pending, gaugeVars,
                    index, readVars, handlerVars, pass >>

\* line 181: the length of the array make() allocates
MakeLen(list) == Len(list)

\* line 181: make([]sensor, len(onewireDeviceList)) allocates the zeroed array;
\* the store of the new slice header into sensors follows, word by word
MakeSensors ==
    /\ Running
    /\ pc = "scan"
    /\ scan = Len(devices)
    /\ arr' = [i \in 1..MakeLen(onewireDeviceList) |-> ZeroSensor]
    /\ pending' = {"ptr", "len"}
    /\ pc' = "alloc"
    /\ UNCHANGED << envVars, mainpc, discoverVars, sensors, gaugeVars, index,
                    readVars, handlerVars, pass >>

\* line 181: one word of the slice header is stored.  The store is not
\* synchronised with the handler's read, so the words land in either order.
StoreHeaderWord(w) ==
    /\ Running
    /\ pc = "alloc"
    /\ w \in pending
    /\ sensors' = [sensors EXCEPT ![w] = IF w = "ptr" THEN "arr" ELSE Len(arr)]
    /\ pending' = pending \ {w}
    /\ UNCHANGED << envVars, mainpc, pc, discoverVars, arr, gaugeVars, index,
                    readVars, handlerVars, pass >>

\* a variant of DiscoverReturn: the loop sleeps before its first pass
DiscoverReturn_sleep ==
    /\ Running
    /\ pc = "alloc"
    /\ pending = {}
    /\ devices' = <<>>
    /\ scan' = 0
    /\ pc' = "Sleep60"
    /\ UNCHANGED << envVars, mainpc, onewireDeviceList, sensors, arr, pending,
                    gaugeVars, index, readVars, handlerVars, pass >>

\* line 183: return nil; the local devices is gone
DiscoverReturn ==
    /\ Running
    /\ pc = "alloc"
    /\ pending = {}
    /\ devices' = <<>>
    /\ scan' = 0
    /\ pc' = "PassStart"
    /\ UNCHANGED << envVars, mainpc, onewireDeviceList, sensors, arr, pending,
                    gaugeVars, index, readVars, handlerVars, pass >>

(***************************************************************************)
(* observeOnewireTemperature, the loop of lines 117-142.                   *)
(***************************************************************************)
\* the label of the pass after pass p: 1 is the first pass only
NextPass(p) == IF p >= NumPassTags THEN 2 ELSE p + 1

\* line 118: the length sensors is resliced to
ResliceLen(list) == Len(list)

\* lines 118-119: sensors = sensors[:len(onewireDeviceList)]; index := 0.
\* The reslice panics when the length exceeds the capacity.
PassStart ==
    /\ Running
    /\ pc = "PassStart"
    /\ IF ResliceLen(onewireDeviceList) <= Len(arr)
       THEN /\ sensors' = [sensors EXCEPT !.len = ResliceLen(onewireDeviceList)]
            /\ pc' = "ForDevice"
       ELSE /\ sensors' = sensors
            /\ pc' = "panic"
    /\ index' = 0
    /\ pass' = NextPass(pass)
    /\ UNCHANGED << envVars, mainpc, discoverVars, arr, pending, gaugeVars,
                    readVars, handlerVars >>

\* line 120: the device of the current iteration (index counts the iterations)
deviceID == onewireDeviceList[index + 1]

\* lines 120-121 and 145-149: the next device, readOnewireDevicePayload is called
CallRead ==
    /\ Running
    /\ pc = "ForDevice"
    /\ index < Len(onewireDeviceList)
    /\ retries' = 0
    /\ buffer' = <<>>
    /\ hist' = <<>>
    /\ pauses' = 0
    /\ pc' = "ReadFile"
    /\ UNCHANGED << envVars, mainpc, discoverVars, sensors, arr, pending, gaugeVars,
                    index, value, err, handlerVars, pass >>

\* line 120: the range is exhausted
PassDone ==
    /\ Running
    /\ pc = "ForDevice"
    /\ index >= Len(onewireDeviceList)
    /\ pc' = "Sleep60"
    /\ UNCHANGED << envVars, mainpc, discoverVars, sensors, arr, pending, gaugeVars,
                    index, readVars, handlerVars, pass >>

\* a variant of Sleep60: the devices are discovered anew before each pass
Sleep60_rediscover ==
    /\ Running
    /\ pc = "Sleep60"
    /\ pc' = "ReadDir"
    /\ UNCHANGED << envVars, mainpc, discoverVars, sensors, arr, pending, gaugeVars,
                    index, readVars, handlerVars, pass >>

\* line 141: time.Sleep(60 * time.Second), then the next iteration of for
Sleep60 ==
    /\ Running
    /\ pc = "Sleep60"
    /\ pc' = "PassStart"
    /\ UNCHANGED << envVars, mainpc, discoverVars, sensors, arr, pending, gaugeVars,
                    index, readVars, handlerVars, pass >>

(***************************************************************************)
(* readOnewireDevicePayload (lines 145-165).                               *)
(***************************************************************************)
\* what ioutil.ReadFile can do with the file of device d
CanFail(d) == fileKind[d] \in {"missing", "noisy"}

CanReturn(d, p) ==
    \/ fileKind[d] = "noisy"
    \/ fileKind[d] = "good" /\ Matches(p)
    \/ fileKind[d] = "garbled" /\ ~Matches(p)

\* the call returns (v, e) to line 121
Return(v, e) ==
    /\ value' = v
    /\ err' = e
    /\ pc' = "Returned"

\* a variant of ReadFileError: the failed read is retried after a pause
ReadFileError_retry ==
    /\ Running
    /\ pc = "ReadFile"
    /\ CanFail(deviceID)
    /\ buffer' = <<>>
    /\ hist' = Append(hist, "io")
    /\ pc' = "Sleep1"
    /\ UNCHANGED << envVars, mainpc, discoverVars, sensors, arr, pending, gaugeVars,
                    index, retries, value, err, pauses, handlerVars, pass >>

\* lines 150-154: ioutil.ReadFile fails: return 0, err
ReadFileError ==
    /\ Running
    /\ pc = "ReadFile"
    /\ CanFail(deviceID)
    /\ buffer' = <<>>
    /\ hist' = Append(hist, "io")
    /\ Return(0, "io")
    /\ UNCHANGED << envVars, mainpc, discoverVars, sensors, arr, pending, gaugeVars,
                    index, retries, pauses, handlerVars, pass >>

\* lines 157-158: strconv.ParseFloat(match[1], 64) / 1000
ParseValue(p) == Captured(p)

\* a variant of ReadFileMatch: the pause comes before the match is looked at
ReadFileMatch_pause(p) ==
    /\ Running
    /\ pc = "ReadFile"
    /\ CanReturn(deviceID, p)
    /\ Matches(p)
    /\ buffer' = p
    /\ hist' = Append(hist, "match")
    /\ pauses' = pauses + 1
    /\ Return(ParseValue(p), "nil")
    /\ UNCHANGED << envVars, mainpc, discoverVars, sensors, arr, pending, gaugeVars,
                    index, retries, handlerVars, pass >>

\* lines 150, 155-158: the payload matches: return value / 1000, nil
ReadFileMatch(p) ==
    /\ Running
    /\ pc = "ReadFile"
    /\ CanReturn(deviceID, p)
    /\ Matches(p)
    /\ buffer' = p
    /\ hist' = Append(hist, "match")
    /\ Return(ParseValue(p), "nil")
    /\ UNCHANGED << envVars, mainpc, discoverVars, sensors, arr, pending, gaugeVars,
                    index, retries, pauses, handlerVars, pass >>

\* lines 150, 155-156, 160: the payload does not match: "Retrying read"
ReadFileNoMatch(p) ==
    /\ Running
    /\ pc = "ReadFile"
    /\ CanReturn(deviceID, p)
    /\ ~Matches(p)
    /\ buffer' = p
    /\ hist' = Append(hist, "nomatch")
    /\ pc' = "Sleep1"
    /\ UNCHANGED << envVars, mainpc, discoverVars, sensors, arr, pending, gaugeVars,
                    index, retries, value, err, pauses, handlerVars, pass >>

\* a variant of MoreRetries: one attempt too many
MoreRetries_le(r) == r <= MaxRetries

\* line 149: the loop condition retries < 5
MoreRetries(r) == r < MaxRetries

\* a variant of RetrySleep: no pause after the last attempt
RetrySleep_nolast ==
    /\ Running
    /\ pc = "Sleep1"
    /\ retries' = retries + 1
    /\ IF MoreRetries(retries + 1)
       THEN /\ pc' = "ReadFile"
            /\ pauses' = pauses + 1
            /\ UNCHANGED << value, err >>
       ELSE /\ pauses' = pauses
            /\ Return(0, "failed")
    /\ UNCHANGED << envVars, mainpc, discoverVars, sensors, arr, pending, gaugeVars,
                    index, buffer, hist, handlerVars, pass >>

\* lines 161, 149, 164: time.Sleep(1 * time.Second); retries++; then either
\* another attempt or return 0, errors.New("Failed to read device")
RetrySleep ==
    /\ Running
    /\ pc = "Sleep1"
    /\ pauses' = pauses + 1
    /\ retries' = retries + 1
    /\ IF MoreRetries(retries + 1)
       THEN /\ pc' = "ReadFile"
            /\ UNCHANGED << value, err >>
       ELSE Return(0, "failed")
    /\ UNCHANGED << envVars, mainpc, discoverVars, sensors, arr, pending, gaugeVars,
                    index, buffer, hist, handlerVars, pass >>

(***************************************************************************)
(* observeOnewireTemperature, lines 121-139: the result, the gauges and    *)
(* the slot.                                                               *)
(***************************************************************************)
\* a variant of AfterReturn: an error ends the pass
AfterReturn_abort(e) == IF e # "nil" THEN "Sleep60" ELSE "SetC"

\* lines 122-124: an error is logged and the iteration goes on at line 126
AfterReturn(e) == "SetC"

\* lines 121-131: value, err are assigned and logged; the locals of the call
\* are gone
LogResult ==
    /\ Running
    /\ pc = "Returned"
    /\ pc' = AfterReturn(err)
    /\ retries' = 0
    /\ buffer' = <<>>
    /\ hist' = <<>>
    /\ pauses' = 0
    /\ UNCHANGED << envVars, mainpc, discoverVars, sensors, arr, pending, gaugeVars,
                    index, value, err, handlerVars, pass >>

\* GaugeVec.With(labels).Set(v): the child of the label values is created on
\* its first use
SetGauge(g, d, v) == [n \in (DOMAIN g) \cup {d} |-> IF n = d THEN v ELSE g[n]]

\* the words of a sensor (lines 22-26): two per string, one for the float64
SensorWords == {"SensorID", "SensorIDLen", "SensorType", "SensorTypeLen", "SensorValue"}

\* a variant of SetGaugeC: the gauge is left alone when the read has failed
SetGaugeC_onsuccess ==
    /\ Running
    /\ pc = "SetC"
    /\ onewireTemperatureC' =
          IF err = "nil" THEN SetGauge(onewireTemperatureC, deviceID, value)
          ELSE onewireTemperatureC
    /\ IF enableFahrenheit
       THEN pc' = "SetF" /\ pending' = pending
       ELSE pc' = "Store" /\ pending' = SensorWords
    /\ UNCHANGED << envVars, mainpc, discoverVars, sensors, arr, onewireTemperatureF,
                    index, readVars, handlerVars, pass >>

\* a variant of SetGaugeC: line 134 without its condition
SetGaugeC_ungated ==
    /\ Running
    /\ pc = "SetC"
    /\ onewireTemperatureC' = SetGauge(onewireTemperatureC, deviceID, value)
    /\ pc' = "SetF"
    /\ UNCHANGED << envVars, mainpc, discoverVars, sensors, arr, pending,
                    onewireTemperatureF, index, readVars, handlerVars, pass >>

\* line 133: onewireTemperatureC.With(...).Set(value)
SetGaugeC ==
    /\ Running
    /\ pc = "SetC"
    /\ onewireTemperatureC' = SetGauge(onewireTemperatureC, deviceID, value)
    /\ IF enableFahrenheit
       THEN pc' = "SetF" /\ pending' = pending
       ELSE pc' = "Store" /\ pending' = SensorWords
    /\ UNCHANGED << envVars, mainpc, discoverVars, sensors, arr, onewireTemperatureF,
                    index, readVars, handlerVars, pass >>

\* lines 126, 134-136: onewireTemperatureF.With(...).Set(fahrenheit)
SetGaugeF ==
    /\ Running
    /\ pc = "SetF"
    /\ \E f \in FahrenheitOutcomes(value) :
          onewireTemperatureF' = SetGauge(onewireTemperatureF, deviceID, f)
    /\ pc' = "Store"
    /\ pending' = SensorWords
    /\ UNCHANGED << envVars, mainpc, discoverVars, sensors, arr, onewireTemperatureC,
                    index, readVars, handlerVars, pass >>

\* a variant of NewSensor: the SensorID is that of the first device
NewSensor_first ==
    [SensorID |-> onewireDeviceList[1], SensorIDLen |-> Len(onewireDeviceList[1]),
     SensorType |-> "temperature", SensorTypeLen |-> TemperatureLen,
     SensorValue |-> value, pass |-> pass]

\* line 138: sensor{SensorID: deviceID, SensorType: "temperature", SensorValue: value}
NewSensor ==
    [SensorID |-> deviceID, SensorIDLen |-> Len(deviceID),
     SensorType |-> "temperature", SensorTypeLen |-> TemperatureLen,
     SensorValue |-> value, pass |-> pass]

\* the element after word f of the new value is stored into it; the ghost
\* label of the pass goes with the value
StoreInto(old, f) ==
    IF f = "SensorValue"
    THEN [old EXCEPT !.SensorValue = NewSensor.SensorValue, !.pass = NewSensor.pass]
    ELSE [old EXCEPT ![f] = NewSensor[f]]

\* lines 138-139: sensors[index] = sensor{...}, one word at a time, then
\* index++.  The store is not synchronised with the handler's reads of the
\* same words, which are not in one step either: the words land in any
\* order, so that what a request can read of an element is what the element
\* is in some state here.  An index outside the slice panics.
StoreField(f) ==
    /\ Running
    /\ pc = "Store"
    /\ f \in pending
    /\ IF index < sensors.len
       THEN /\ arr' = [arr EXCEPT ![index + 1] = StoreInto(arr[index + 1], f)]
            /\ pending' = pending \ {f}
            /\ pc' = IF pending' = {} THEN "ForDevice" ELSE "Store"
            /\ index' = IF pending' = {} THEN index + 1 ELSE index
       ELSE /\ pc' = "panic"
            /\ UNCHANGED << arr, pending, index >>
    /\ UNCHANGED << envVars, mainpc, discoverVars, sensors, gaugeVars, readVars,
                    handlerVars, pass >>

(***************************************************************************)
(* jsonPathHandler (lines 106-109): json.Marshal(sensors) is passed a copy *)
(* of the slice header, then reads the elements one after the other; none  *)
(* of these reads is synchronised with the poll goroutine.                 *)
(***************************************************************************)
\* line 107: the slice header is loaded.  A slice whose pointer is nil is
\* marshalled as null whatever its length (the encoder tests the pointer
\* and touches no element); line 108 then writes the response.
HandlerLoad ==
    /\ mainpc = "serving"
    /\ hpc = "idle"
    /\ hdr' = sensors
    /\ hobs' = <<>>
    /\ hpc' = IF sensors.ptr = "nil" \/ sensors.len = 0 THEN "done" ELSE "walk"
    /\ UNCHANGED << envVars, mainpc, pc, discoverVars, sensors, arr, pending,
                    gaugeVars, index, readVars, pass >>

\* line 107: the next element is marshalled; after the last one the response
\* is written (line 108).  Encoding a string with a length and no pointer
\* dereferences nil: the handler panics and there is no response.
HandlerElem ==
    /\ mainpc = "serving"
    /\ hpc = "walk"
    /\ IF TornString(arr[Len(hobs) + 1])
       THEN /\ hobs' = hobs
            /\ hpc' = "panic"
       ELSE /\ hobs' = Append(hobs, Marshalled(arr[Len(hobs) + 1]))
            /\ hpc' = IF Len(hobs) + 1 = hdr.len THEN "done" ELSE "walk"
    /\ UNCHANGED << envVars, mainpc, pc, discoverVars, sensors, arr, pending,
                    gaugeVars, index, readVars, hdr, pass >>

\* the request is over (net/http recovers a handler's panic); the next one
\* may come
HandlerReturn ==
    /\ mainpc = "serving"
    /\ hpc \in {"done", "panic"}
    /\ hpc' = "idle"
    /\ hdr' = NilSlice
    /\ hobs' = <<>>
    /\ UNCHANGED << envVars, mainpc, pc, discoverVars, sensors, arr, pending,
                    gaugeVars, index, readVars, pass >>

(***************************************************************************)
(* The program.                                                            *)
(***************************************************************************)
MainNext == InstallHandlers \/ LaunchPoll \/ ListenFail

ListNext(input) ==
    \/ ReadDirFail
    \/ \E l \in input : ReadDirOK(l)
    \/ ScanEntry
    \/ MakeSensors
    \/ \E w \in {"ptr", "len"} : StoreHeaderWord(w)
    \/ DiscoverReturn

DiscoverNext == ListNext(Listings)

ReadNext(input) ==
    \/ ReadFileError
    \/ \E p \in input : ReadFileMatch(p)
    \/ \E p \in input : ReadFileNoMatch(p)
    \/ RetrySleep

PollNext(input) ==
    \/ PassStart
    \/ CallRead
    \/ PassDone
    \/ Sleep60
    \/ ReadNext(input)
    \/ LogResult
    \/ SetGaugeC
    \/ SetGaugeF
    \/ \E f \in SensorWords : StoreField(f)

HandlerNext == HandlerLoad \/ HandlerElem \/ HandlerReturn

Next == MainNext \/ DiscoverNext \/ PollNext(SteadyPayloads) \/ HandlerNext

\* the whole program with one request at a time; every read of a file may
\* fail, return an invalid payload or return the file's reading
Spec == Init /\ [][Next]_vars

PollOnlyNext == MainNext \/ DiscoverNext \/ PollNext(PayloadPool)

\* main and the poll goroutine without requests, over files of every kind;
\* both are scheduled and their sleeps end.  Nothing forces the listener to
\* fail.
PollSpec ==
    /\ InitKinds
    /\ [][PollOnlyNext]_vars
    /\ WF_vars(InstallHandlers \/ LaunchPoll)
    /\ WF_vars(DiscoverNext \/ PollNext(PayloadPool))

\* main and createOnewireDeviceList over every listing
DiscoverSpec == Init /\ [][MainNext \/ ListNext(AllListings)]_vars

\* the readings the conversion is run on, in thousandths of a degree: the
\* four of the table and every reading up to MaxMilli either side of 0
TableReadings == {0, 100000, 0 - 40000, 36500}

ConvertInputs == ((0 - MaxMilli)..MaxMilli) \cup TableReadings

\* the first iteration of the first pass over one device, with
\* export.fahrenheit enabled: readOnewireDevicePayload has returned the
\* reading m of the payload and line 133 is next
ConvertInit ==
    /\ fileKind = [n \in SensorPool |-> "noisy"]
    /\ enableFahrenheit = TRUE
    /\ dirErr = FALSE
    /\ mainpc = "serving"
    /\ pc = "SetC"
    /\ hpc = "idle"
    /\ devices = <<>>
    /\ scan = 0
    /\ onewireDeviceList = <<NamePool[1]>>
    /\ sensors = [ptr |-> "arr", len |-> 1]
    /\ arr = <<ZeroSensor>>
    /\ pending = {}
    /\ onewireTemperatureC = <<>>
    /\ onewireTemperatureF = <<>>
    /\ index = 0
    /\ retries = 0
    /\ buffer = <<>>
    /\ value \in ConvertInputs
    /\ err = "nil"
    /\ hdr = NilSlice
    /\ hobs = <<>>
    /\ pass = 1
    /\ hist = <<>>
    /\ pauses = 0

ConvertNext == SetGaugeC \/ SetGaugeF \/ \E f \in SensorWords : StoreField(f)

\* lines 126-139 on every reading of ConvertInputs
ConvertSpec == ConvertInit /\ [][ConvertNext]_vars

(***************************************************************************)
(* Properties.                                                             *)
(***************************************************************************)
Last(s) == s[Len(s)]

NoMatchCount == Cardinality({ k \in 1..Len(hist) : hist[k] = "nomatch" })

\* the reading written in a payload, in thousandths of a degree
Reading(p) ==
    CASE p = PayloadWarm -> 21500
      [] p = PayloadCold -> 0 - 500
      [] OTHER -> 0

\* C5: a call whose reads succeed and whose payload matches for the first
\* time on attempt N (N in 1..5) has returned success then, with the value of
\* the payload of attempt N, after N attempts and N-1 one-second pauses.
C5_RetryUntilMatch ==
    (hist # <<>> /\ Last(hist) = "match") =>
        /\ pc = "Returned"
        /\ err = "nil"
        /\ Len(hist) \in 1..5
        /\ \A k \in 1..(Len(hist) - 1) : hist[k] = "nomatch"
        /\ pauses = Len(hist) - 1
        /\ value = Reading(buffer)

\* a match on the fifth attempt, after four pauses
C5_Witness ==
    /\ pc = "Returned"
    /\ err = "nil"
    /\ Len(hist) = 5
    /\ pauses = 4
    /\ buffer = PayloadCold
    /\ value = 0 - 500

\* C6: a call makes at most 5 read attempts, each step of it is an attempt
\* or a pause that counts towards the 5 or its return, and it ends in exactly
\* one of success, I/O failure and exhaustion; a call whose payload never
\* matches makes exactly 5 attempts and returns the failure with value 0.
C6_BoundedRetry ==
    /\ Len(hist) <= 5
    /\ pc = "ReadFile" => Len(hist) = retries /\ retries <= 4
    /\ pc = "Sleep1" => Len(hist) = retries + 1
    /\ pc \in {"ReadFile", "Sleep1"} => ENABLED ReadNext(PayloadPool)
    /\ pc = "Returned" =>
        /\ hist # <<>>
        /\ \/ err = "nil" /\ Last(hist) = "match"
           \/ err = "io" /\ Last(hist) = "io" /\ value = 0
           \/ err = "failed" /\ Last(hist) = "nomatch" /\ value = 0
        /\ (\A k \in 1..Len(hist) : hist[k] = "nomatch") <=>
               (Len(hist) = 5 /\ err = "failed" /\ value = 0)

\* five payloads that did not match
C6_Witness ==
    /\ pc = "Returned"
    /\ err = "failed"
    /\ value = 0
    /\ Len(hist) = 5
    /\ NoMatchCount = 5

\* C7: an I/O error is the last attempt of its call: the call has returned
\* the failure with no further attempt and no pause after it; pauses follow
\* payloads that did not match, one each, and nothing else.
C7_NoRetryOnIOError ==
    /\ \A k \in 1..Len(hist) :
           hist[k] = "io" =>
               /\ k = Len(hist)
               /\ pc = "Returned"
               /\ err = "io"
               /\ value = 0
               /\ pauses = k - 1
    /\ pauses = IF pc = "Sleep1" THEN NoMatchCount - 1 ELSE NoMatchCount

\* an I/O error on the third attempt
C7_Witness ==
    /\ pc = "Returned"
    /\ err = "io"
    /\ Len(hist) = 3
    /\ pauses = 2

\* the name has "w1_bus_master1" somewhere in it
HasBusMasterName(n) ==
    \E i \in 1..Len(n) :
        /\ i + 13 <= Len(n)
        /\ SubSeq(n, i, i + 13) = <<"w","1","_","b","u","s","_","m","a","s","t","e","r","1">>

NotBusMasterName(n) == ~HasBusMasterName(n)

\* C10: the device list is the subsequence of the directory entries visited
\* so far whose names do not contain the bus-master substring, in the order of
\* the listing; for <<28-1, 28-2, w1_bus_master1>> it ends as <<28-1, 28-2>>.
C10_Discovery ==
    /\ pc \in {"scan", "alloc"} =>
           onewireDeviceList = SelectSeq(SubSeq(devices, 1, scan), NotBusMasterName)
    /\ pc = "alloc" =>
        /\ scan = Len(devices)
        /\ devices = << <<"2","8","-","1">>, <<"2","8","-","2">>, BusMaster >> =>
               onewireDeviceList = << <<"2","8","-","1">>, <<"2","8","-","2">> >>

\* the listing of the example, discovered
C10_Witness ==
    /\ pc = "alloc"
    /\ devices = << <<"2","8","-","1">>, <<"2","8","-","2">>, BusMaster >>
    /\ onewireDeviceList = << <<"2","8","-","1">>, <<"2","8","-","2">> >>

\* C1: a response of jsonPathHandler for two or more devices holds the
\* readings of one pass: no two of its elements were written in different
\* passes of the poll loop.
C1_SnapshotAtomic ==
    (hpc = "done" /\ Len(hobs) >= 2) =>
        \A i, j \in 1..Len(hobs) :
            (hobs[i].pass >= 1 /\ hobs[j].pass >= 1) => hobs[i].pass = hobs[j].pass

\* C2: while the poll loop handles a device whose read failed, the children
\* of the Celsius and Fahrenheit gauges keep their values.
C2_GaugeKeptOnFailure ==
    [][ (pc \in {"SetC", "SetF"} /\ err # "nil" /\ pc' # "exited") =>
            /\ \A d \in DOMAIN onewireTemperatureC :
                   onewireTemperatureC'[d] = onewireTemperatureC[d]
            /\ \A d \in DOMAIN onewireTemperatureF :
                   onewireTemperatureF'[d] = onewireTemperatureF[d] ]_vars

\* C3: while the poll loop handles a device whose read failed, the value in
\* the device's slot of the Snapshot stays the one of the previous pass.
C3_SlotKeptOnFailure ==
    [][ (pc = "Store" /\ err # "nil" /\ pc' # "exited") =>
            arr'[index + 1].SensorValue = arr[index + 1].SensorValue ]_vars

Healthy(n) == fileKind[n] = "good"

Broken(n) == fileKind[n] \in {"missing", "garbled"}

\* device i of the list has a sibling whose every read fails, and reads well
IsolationCase(i) ==
    /\ i <= Len(onewireDeviceList)
    /\ Healthy(onewireDeviceList[i])
    /\ \E j \in 1..Len(onewireDeviceList) : Broken(onewireDeviceList[j])

\* the gauges and the slot of device i have just been written from a read of
\* the current pass that succeeded
UpdatedNow(i) ==
    /\ pc = "ForDevice"
    /\ index = i
    /\ err = "nil"
    /\ value \in {21500, 0 - 500}
    /\ ~TornString(arr[i])
    /\ Marshalled(arr[i]) =
          [SensorID |-> onewireDeviceList[i], SensorType |-> "temperature",
           SensorValue |-> value, pass |-> pass]
    /\ onewireTemperatureC[onewireDeviceList[i]] = value

\* every device has been visited in the pass that has just ended, and the
\* slots and gauges of the devices that read well hold a reading
PassComplete ==
    /\ index = Len(onewireDeviceList)
    /\ \A i \in 1..Len(onewireDeviceList) :
        /\ arr[i].pass = pass
        /\ ~TornString(arr[i])
        /\ Marshalled(arr[i]).SensorID = onewireDeviceList[i]
        /\ onewireTemperatureC[onewireDeviceList[i]] = arr[i].SensorValue
        /\ Healthy(onewireDeviceList[i]) => arr[i].SensorValue \in {21500, 0 - 500}
        /\ Broken(onewireDeviceList[i]) => arr[i].SensorValue = 0

\* C4: every pass that ends has visited the whole device list, whatever
\* failed; the reads of a device that reads well succeed; and while the
\* process runs, with the poll goroutine scheduled, passes end again and again
\* and a device that reads well beside a device that always fails is updated
\* again and again.
C4_FailureIsolation ==
    /\ [](pc = "Sleep60" => PassComplete)
    /\ []((pc = "Returned" /\ Healthy(deviceID)) => err = "nil")
    /\ []<>(pc \in {"Sleep60", "exited"})
    /\ \A i \in 1..Cardinality(SensorPool) :
           []<>(pc = "exited" \/ (pc # "notstarted" /\ ~IsolationCase(i)) \/ UpdatedNow(i))

\* the second pass over an unreadable device and a device that reads well
C4_Witness ==
    /\ pc = "Sleep60"
    /\ pass = 2
    /\ Len(onewireDeviceList) = 2
    /\ fileKind[onewireDeviceList[1]] = "missing"
    /\ fileKind[onewireDeviceList[2]] = "good"
    /\ arr[1].pass = 2
    /\ arr[1].SensorValue = 0
    /\ arr[2].pass = 2
    /\ arr[2].SensorValue = 21500
    /\ onewireTemperatureC[onewireDeviceList[2]] = 21500

\* the first pass of the poll loop has ended
FirstPassDone == pass >= 2 \/ (pass = 1 /\ pc \in {"Sleep60", "PassStart"})

\* C8: once the first pass has ended, sensors is the allocated array in its
\* whole length, which is the length of onewireDeviceList, at every step of
\* the later passes, and that is the slice a request then reads.
C8_SnapshotLength ==
    FirstPassDone =>
        /\ sensors.ptr = "arr"
        /\ sensors.len = Len(onewireDeviceList)
        /\ Len(arr) = Len(onewireDeviceList)
        /\ ENABLED HandlerLoad => sensors.len = Len(onewireDeviceList)

\* a request reads the two elements in the middle of the second pass
C8_Witness ==
    /\ pass = 2
    /\ pc = "Store"
    /\ index = 1
    /\ Len(onewireDeviceList) = 2
    /\ hpc = "walk"
    /\ hdr = sensors
    /\ hdr.len = 2
    /\ Len(hobs) = 1

\* C9: a request never reads a nil sensors, nor one whose length differs
\* from the number of devices discovered.
C9_HandlerSeesAllocated ==
    hpc \in {"walk", "done", "panic"} =>
        /\ hdr.ptr = "arr"
        /\ hdr.len = Len(onewireDeviceList)

\* C11: in an execution where ioutil.ReadDir fails the poll goroutine is
\* never past the call of line 168: no read has been attempted, no gauge has
\* a child, no array is allocated and no pass has started; and once the
\* process has exited no step of the program is left.
C11_FatalStartup ==
    dirErr =>
        /\ pc \in {"notstarted", "ReadDir", "exited"}
        /\ hist = <<>>
        /\ pauses = 0
        /\ retries = 0
        /\ pass = 0
        /\ onewireTemperatureC = <<>>
        /\ onewireTemperatureF = <<>>
        /\ onewireDeviceList = <<>>
        /\ sensors = NilSlice
        /\ arr = <<>>
        /\ pc = "exited" => mainpc = "exited" /\ ~ENABLED Next

\* the listing has failed and the process is gone
C11_Witness ==
    /\ dirErr
    /\ pc = "exited"
    /\ mainpc = "exited"
    /\ hpc = "exited"

\* C12: when a read has succeeded and the gauges of its device are set
\* (line 138 is next), the Celsius child of the device holds the value read,
\* and the Fahrenheit gauge has a child for the device exactly when
\* export.fahrenheit is enabled, holding the converted value; when the flag
\* is disabled the Fahrenheit gauge has no child and line 135 is never
\* reached.
C12_FahrenheitGating ==
    /\ ~enableFahrenheit => onewireTemperatureF = <<>> /\ pc # "SetF"
    /\ (pc = "Store" /\ err = "nil") =>
          /\ deviceID \in DOMAIN onewireTemperatureC
          /\ onewireTemperatureC[deviceID] = value
          /\ enableFahrenheit <=> deviceID \in DOMAIN onewireTemperatureF
          /\ enableFahrenheit =>
                onewireTemperatureF[deviceID] \in FahrenheitOutcomes(value)

\* with the flag enabled the second device's reading -0.5 has been exported
\* as 31.1 beside the first device's 70.7
C12_Witness ==
    /\ pc = "Store"
    /\ err = "nil"
    /\ index = 1
    /\ value = -500
    /\ onewireTemperatureC[deviceID] = -500
    /\ enableFahrenheit
    /\ onewireTemperatureF[deviceID] = 3110
    /\ onewireTemperatureF[onewireDeviceList[1]] = 7070

\* the poll goroutine is inside the range loop of lines 120-140
InPass == pc \in {"ForDevice", "ReadFile", "Sleep1", "Returned", "SetC", "SetF", "Store"}

\* the devices before the current one have been visited in this pass, each
\* in its own slot, and no later device has been
VisitedInOrder ==
    /\ index <= Len(onewireDeviceList)
    /\ pc # "ForDevice" => index < Len(onewireDeviceList)
    /\ \A k \in 1..Len(onewireDeviceList) :
        /\ k <= index =>
               /\ arr[k].pass = pass
               /\ ~TornString(arr[k])
               /\ Marshalled(arr[k]).SensorID = onewireDeviceList[k]
        /\ k > index + 1 => arr[k].pass # pass
        /\ (k = index + 1 /\ arr[k].pass = pass) =>
               pc = "Store" /\ "SensorValue" \notin pending

\* C13: createOnewireDeviceList returns into the first pass and there is no
\* sleep before it; inside a pass the devices are visited one at a time in
\* the order of the list, none twice; the 60 second sleep is entered only
\* when all have been visited and is left into the next pass only; the loop
\* always has a next step, and while the process runs, with the poll
\* goroutine scheduled, a pass starts again and again.
C13_PollLoop ==
    /\ [][(pc = "alloc" /\ pc' \notin {"alloc", "exited"}) => pc' = "PassStart"]_vars
    /\ [](pc = "Sleep60" => pass >= 1)
    /\ [](InPass => VisitedInOrder)
    /\ [][(pc = "ForDevice" /\ pc' = "ReadFile") =>
            /\ index' = index
            /\ arr[index + 1].pass # pass]_vars
    /\ [][(InPass /\ pc' # "exited") => index' \in {index, index + 1}]_vars
    /\ [](pc = "Sleep60" =>
            /\ index = Len(onewireDeviceList)
            /\ \A k \in 1..Len(onewireDeviceList) : arr[k].pass = pass)
    /\ [][(pc = "Sleep60" /\ pc' \notin {"Sleep60", "exited"}) => pc' = "PassStart"]_vars
    /\ [](pc \notin {"notstarted", "exited"} =>
            ENABLED (DiscoverNext \/ PollNext(PayloadPool)))
    /\ []<>(pc \in {"PassStart", "exited"})

\* two passes over two devices have ended, each followed by its sleep, and
\* the third is about to start
C13_Witness ==
    /\ pc = "PassStart"
    /\ pass = 2
    /\ index = 2
    /\ Len(onewireDeviceList) = 2
    /\ arr[1].pass = 2
    /\ arr[2].pass = 2

\* C14: once a pass has ended, element i of the array behind sensors has the
\* SensorID of element i of onewireDeviceList and the SensorType
\* "temperature", for every i; and whenever line 138 stores, index is within
\* 0..len(onewireDeviceList)-1 and inside the slice, so the store never
\* panics.
C14_SnapshotOrdering ==
    /\ FirstPassDone =>
          /\ Len(arr) = Len(onewireDeviceList)
          /\ \A i \in 1..Len(onewireDeviceList) :
                /\ ~TornString(arr[i])
                /\ Marshalled(arr[i]).SensorID = onewireDeviceList[i]
                /\ Marshalled(arr[i]).SensorType = "temperature"
    /\ pc = "Store" =>
          /\ index \in 0..(Len(onewireDeviceList) - 1)
          /\ index < sensors.len
    /\ pc # "panic"

\* the first pass over two devices has ended
C14_Witness ==
    /\ pc = "Sleep60"
    /\ pass = 1
    /\ Len(onewireDeviceList) = 2
    /\ onewireDeviceList[1] # onewireDeviceList[2]
    /\ Marshalled(arr[1]).SensorID = onewireDeviceList[1]
    /\ Marshalled(arr[2]).SensorID = onewireDeviceList[2]
    /\ Marshalled(arr[2]).SensorType = "temperature"

\* C15: createOnewireDeviceList is entered once, from the start of the poll
\* goroutine, and has returned before the first pass; the only steps that
\* change onewireDeviceList are the appends of its loop (lines 174-179): no
\* step of the poll loop and no step of a handler changes the list, until
\* the process exits.
C15_DiscoveredOnce ==
    /\ [][pc' = "ReadDir" => pc \in {"notstarted", "ReadDir"}]_vars
    /\ [][pc' = "scan" => pc \in {"ReadDir", "scan"}]_vars
    /\ [](pass >= 1 => pc \notin {"notstarted", "ReadDir", "scan", "alloc"})
    /\ [][(pc' # "exited" /\ ~(pc = "scan" /\ scan' = scan + 1)) =>
            onewireDeviceList' = onewireDeviceList]_vars

\* the second pass over the two devices discovered, after a request has
\* been answered
C15_Witness ==
    /\ pass = 2
    /\ pc = "ReadFile"
    /\ index = 1
    /\ hpc = "done"
    /\ Len(onewireDeviceList) = 2
    /\ Len(hobs) = 2

\* C17: a call that has returned "Failed to read device" has made 5 attempts,
\* each of which read a payload that did not match, and has paused for one
\* second 5 times: once after every failed attempt, the last one included.
C17_PauseAfterLastAttempt ==
    (pc = "Returned" /\ err = "failed") =>
        /\ Len(hist) = 5
        /\ \A k \in 1..Len(hist) : hist[k] = "nomatch"
        /\ pauses = 5
        /\ pauses = NoMatchCount
        /\ retries = 5
        /\ value = 0

\* the read of the second device has exhausted its attempts in the second
\* pass
C17_Witness ==
    /\ pc = "Returned"
    /\ err = "failed"
    /\ pauses = 5
    /\ pass = 2
    /\ index = 1
    /\ ~Matches(buffer)

\* C18: when the read of a device has failed, the iteration has still set
\* the gauges and stored the slot, with the value 0 the failure returns: once
\* the iteration is over (and at the end of the pass, when the device was
\* the last one) the Celsius child of the device is 0, its slot holds
\* SensorValue 0 written in this pass, and with export.fahrenheit enabled
\* its Fahrenheit child is 32.
C18_ZeroOnFailure ==
    (/\ err # "nil"
     /\ \/ pc = "ForDevice" /\ index >= 1
        \/ pc = "Sleep60" /\ Len(onewireDeviceList) >= 1) =>
        /\ pc = "Sleep60" => index = Len(onewireDeviceList)
        /\ index >= 1
        /\ value = 0
        /\ onewireTemperatureC[onewireDeviceList[index]] = 0
        /\ arr[index].SensorValue = 0
        /\ arr[index].pass = pass
        /\ enableFahrenheit => onewireTemperatureF[onewireDeviceList[index]] = 3200

\* a request has read 21.5 in the first device's slot, written by the first
\* pass; the read of the device has failed in the second pass, and the slot
\* and both gauges now hold the zero value
C18_Witness ==
    /\ pc = "ForDevice"
    /\ index = 1
    /\ pass = 2
    /\ err = "failed"
    /\ hpc = "done"
    /\ Len(hobs) >= 1
    /\ hobs[1].SensorValue = 21500
    /\ hobs[1].pass = 1
    /\ arr[1].SensorValue = 0
    /\ arr[1].pass = 2
    /\ onewireTemperatureC[onewireDeviceList[1]] = 0
    /\ enableFahrenheit
    /\ onewireTemperatureF[onewireDeviceList[1]] = 3200

\* C19: while the poll loop is in the 60 second sleep of line 141, every
\* device has a Celsius child and its value is the SensorValue of the device's
\* slot.
C19_GaugeMatchesSnapshot ==
    pc = "Sleep60" =>
        \A i \in 1..Len(onewireDeviceList) :
            /\ onewireDeviceList[i] \in DOMAIN onewireTemperatureC
            /\ ~TornString(arr[i])
            /\ Marshalled(arr[i]).SensorID = onewireDeviceList[i]
            /\ onewireTemperatureC[Marshalled(arr[i]).SensorID] = arr[i].SensorValue

\* the sleep after a second pass in which the first device was read as -0.5
\* and the read of the second failed
C19_Witness ==
    /\ pc = "Sleep60"
    /\ pass = 2
    /\ Len(onewireDeviceList) = 2
    /\ arr[1].SensorValue = 0 - 500
    /\ onewireTemperatureC[onewireDeviceList[1]] = 0 - 500
    /\ err = "io"
    /\ arr[2].SensorValue = 0
    /\ onewireTemperatureC[onewireDeviceList[2]] = 0

\* C16: when the Fahrenheit gauge has been set for a reading of m
\* thousandths of a degree Celsius, its value is round((m/1000*1.8+32)*100)
\* hundredths of a degree, halves rounded away from zero; the table has
\* 0 -> 32.0, 100 -> 212.0, -40 -> -40.0 and 36.5 -> 97.7.
C16_UnitConversion ==
    (pc = "Store" /\ err = "nil" /\ enableFahrenheit) =>
        /\ onewireTemperatureF[deviceID] = RoundDiv(18 * value + 320000, 100)
        /\ value = 0 => onewireTemperatureF[deviceID] = 3200
        /\ value = 100000 => onewireTemperatureF[deviceID] = 21200
        /\ value = 0 - 40000 => onewireTemperatureF[deviceID] = 0 - 4000
        /\ value = 36500 => onewireTemperatureF[deviceID] = 9770

====
